---- MODULE Spec2Model ----
(***************************************************************************)
(* Model of the auth service (LIUHUANUCAS/auth): JWT issuing/validation,   *)
(* the Redis-backed user store and refresh-token ledger, the HTTP handlers *)
(* Register, Login, WeChatLogin, RefreshToken, Logout, Me and the          *)
(* AuthRequired middleware.                                                *)
(*                                                                         *)
(* Time is counted in ticks, TicksPerSecond ticks to the second, so that   *)
(* jwt.NewNumericDate's truncation to whole seconds is visible.            *)
(* A handler is a sequence of steps, one Redis call each (Step).  Spec     *)
(* runs each request to its response in one action; SpecConc interleaves   *)
(* the steps of concurrent requests.  Any Redis call may fail.             *)
(* models.User's CreatedAt/UpdatedAt are left out: no handler reads them.  *)
(***************************************************************************)
EXTENDS Integers, Sequences, FiniteSets, TLC

\* ---------------------------------------------------------------- bounds
TicksPerSecond == 2
MaxTicks == 2
NumProcs == 2
MaxIssued == 3
MaxFailures == 1

\* ------------------------------------------------------ program constants
\* config.GetConfig: AccessTokenTTL 15 * time.Minute, RefreshTokenTTL 7 * 24 * time.Hour
AccessTokenTTL == 15 * 60 * TicksPerSecond
RefreshTokenTTL == 7 * 24 * 60 * 60 * TicksPerSecond
\* the literal 7*24*time.Hour of redisClient.Set in Login and WeChatLogin
LedgerTTL == 7 * 24 * 60 * 60 * TicksPerSecond
\* the literal 15 * 60 of "expires_in"
ExpiresIn == 15 * 60
\* os.Getenv("JWT_SECRET_KEY")
\* JWT_SECRET_KEY values the process can be started with
SecretKeys == {"jwt-secret", ""}

\* The process environment's JWT_SECRET_KEY, read once by GetConfig
VARIABLE env

SecretKey == env

StatusOK == 200
StatusCreated == 201
StatusBadRequest == 400
StatusUnauthorized == 401
StatusConflict == 409
StatusInternalServerError == 500

AccessToken == "access"
RefreshToken == "refresh"

\* ------------------------------------------------------------ input sets
Usernames == {"alice", "wx_o1"}
Passwords == {"secret1", "hunter2"}
\* what Spec registers; Login tries every username and password
RegisterUsernames == {"alice"}
RegisterPasswords == {"secret1"}
Emails == {"a@x.com"}
Codes == {"c1", "c2", "bad"}
Procs == 1..NumProcs
TickSteps == {1, AccessTokenTTL, RefreshTokenTTL}

\* ------------------------------------------------------------- utils/jwt
\* jwt.NewNumericDate truncates to jwt.TimePrecision (one second)
NumericDate(t) == (t \div TicksPerSecond) * TicksPerSecond

\* HMAC-SHA256 over header and claims: an injective function of key and claims
HS256(key, c) == <<key, c.user_id, c.type, c.exp, c.iat, c.nbf>>

\* The signature segment: base64.RawURLEncoding of the 32 MAC bytes, 43
\* characters, the last of which carries four bits of the MAC and two unused
\* bits; encoding sets them to 0
EncodeSegment(mac) == [mac |-> mac, bits |-> 0]

\* Parser.DecodeSegment without WithStrictDecoding: the unused bits of the last
\* character are dropped
DecodeSegment(seg) == seg.mac

generateToken(userID, tokenType, ttl, now) ==
    LET claims == [user_id |-> userID, type |-> tokenType,
                   exp |-> NumericDate(now + ttl),
                   iat |-> NumericDate(now),
                   nbf |-> NumericDate(now)]
    IN  [alg |-> "HS256", claims |-> claims, sig |-> EncodeSegment(HS256(SecretKey, claims))]

\* GenerateAccessToken handing generateToken the other TokenType
GenerateAccessTokenAsRefresh(userID, now) ==
    generateToken(userID, RefreshToken, AccessTokenTTL, now)

GenerateAccessToken(userID, now) ==
    generateToken(userID, AccessToken, AccessTokenTTL, now)

GenerateRefreshToken(userID, now) ==
    generateToken(userID, RefreshToken, RefreshTokenTTL, now)

NoClaims == [user_id |-> "", type |-> "", exp |-> 0, iat |-> 0, nbf |-> 0]

\* A string that is no JWT at all (jwt.ParseWithClaims: malformed)
Malformed == [alg |-> "", claims |-> NoClaims, sig |-> EncodeSegment(HS256("", NoClaims))]

\* ValidateToken taking a token at the very instant of its exp
ValidateTokenInclusiveExp(tokenString, now) ==
    IF /\ tokenString.alg = "HS256"
       /\ DecodeSegment(tokenString.sig) = HS256(SecretKey, tokenString.claims)
       /\ now <= tokenString.claims.exp
       /\ now >= tokenString.claims.nbf
    THEN [err |-> FALSE, claims |-> tokenString.claims]
    ELSE [err |-> TRUE, claims |-> NoClaims]

\* jwt.ParseWithClaims with the key function of ValidateToken, then the
\* registered-claims validation of jwt/v5: exp must be after now, nbf not after now
ValidateToken(tokenString, now) ==
    IF /\ tokenString.alg = "HS256"
       /\ DecodeSegment(tokenString.sig) = HS256(SecretKey, tokenString.claims)
       /\ now < tokenString.claims.exp
       /\ now >= tokenString.claims.nbf
    THEN [err |-> FALSE, claims |-> tokenString.claims]
    ELSE [err |-> TRUE, claims |-> NoClaims]

\* ValidateAccessToken without its check of claims.Type
ValidateAccessTokenAnyKind(tokenString, now) == ValidateToken(tokenString, now)

ValidateAccessToken(tokenString, now) ==
    LET r == ValidateToken(tokenString, now)
    IN  IF r.err THEN r
        ELSE IF r.claims.type # AccessToken THEN [err |-> TRUE, claims |-> NoClaims]
        ELSE r

\* ValidateRefreshToken without its check of claims.Type
ValidateRefreshTokenAnyKind(tokenString, now) == ValidateToken(tokenString, now)

ValidateRefreshToken(tokenString, now) ==
    LET r == ValidateToken(tokenString, now)
    IN  IF r.err THEN r
        ELSE IF r.claims.type # RefreshToken THEN [err |-> TRUE, claims |-> NoClaims]
        ELSE r

\* --------------------------------------------------------- utils/wechat
\* WeChat's jscode2session: the OpenID a code resolves to, "" when the API errs
Code2Session(code) ==
    CASE code = "c1" -> "o1"
      [] code = "c2" -> "o1"
      [] OTHER -> ""

\* ---------------------------------------------------------- models/user
\* json.Marshal(user): Password and OpenID carry omitempty
MarshalUser(u) ==
    LET fields == {"id", "username", "email"}
                  \cup (IF u.Password # "" THEN {"password"} ELSE {})
                  \cup (IF u.OpenID # "" THEN {"open_id"} ELSE {})
    IN  [f \in fields |->
            CASE f = "id" -> u.ID
              [] f = "username" -> u.Username
              [] f = "email" -> u.Email
              [] f = "password" -> u.Password
              [] OTHER -> u.OpenID]

\* json.Unmarshal into a zero User
UnmarshalUser(j) ==
    [ID |-> j["id"], Username |-> j["username"],
     Password |-> IF "password" \in DOMAIN j THEN j["password"] ELSE "",
     Email |-> j["email"],
     OpenID |-> IF "open_id" \in DOMAIN j THEN j["open_id"] ELSE ""]

\* bcrypt.GenerateFromPassword (the salt is left out)
GenerateFromPassword(password) == "$2a$" \o password

\* bcrypt.CompareHashAndPassword: nil only for the hash of that password;
\* an empty hash is ErrHashTooShort
CompareHashAndPassword(hash, password) ==
    hash # "" /\ hash = GenerateFromPassword(password)

\* fmt.Sprintf("wx_%s", openID)
WxID(openID) == "wx_" \o openID

\* ------------------------------------------------------------------ state
VARIABLES
    clock,        \* time.Now(), in ticks
    ticks,        \* how often the clock has advanced
    users,        \* Redis keys "user:<id>": id -> JSON of the User
    usernameIdx,  \* Redis keys "username:<name>": name -> id
    openidIdx,    \* Redis keys "openid:<openid>": openid -> id
    ledger,       \* Redis keys "refresh_token:<token>": token -> [uid, exp]
    proc,         \* the handler each request goroutine is in, with its locals
    resp,         \* the HTTP response written by the last step (NoResp if none)
    issued,       \* every token a 200 response has carried
    revoked,      \* every issued token a Logout has answered 200 for
    wechatLogins  \* [openid, user_id] of every 200 response of WeChatLogin

vars == <<env, clock, ticks, users, usernameIdx, openidIdx, ledger, proc, resp, issued,
          revoked, wechatLogins>>

\* The Redis keyspace as one value
Store == [users |-> users, usernameIdx |-> usernameIdx, openidIdx |-> openidIdx,
          ledger |-> ledger]

NoHeader == [set |-> FALSE, scheme |-> "", rest |-> <<>>]

\* A goroutine between requests; the locals of every handler
Idle ==
    [pc |-> "idle", username |-> "", password |-> "", code |-> "", openid |-> "",
     token |-> Malformed, header |-> NoHeader, id |-> "",
     at |-> Malformed, rt |-> Malformed, failed |-> FALSE]

NoResp ==
    [op |-> "none", status |-> 0, req |-> [none |-> TRUE], body |-> [none |-> TRUE],
     storeErr |-> FALSE]

\* c.JSON(status, body); storeErr notes whether a Redis call of the request failed
Response(op, status, req, body, storeErr) ==
    [op |-> op, status |-> status, req |-> req, body |-> body, storeErr |-> storeErr]

ErrorBody(msg) == [error |-> msg]

\* TokenResponse
TokenResponse(accessToken, refreshToken) ==
    [access_token |-> accessToken, refresh_token |-> refreshToken, expires_in |-> ExpiresIn]

\* ------------------------------------------------------------ Redis calls
\* GET of a key with a TTL: redis.Nil once the TTL has run out
LedgerLive(l, tokenString, now) ==
    tokenString \in DOMAIN l /\ now < l[tokenString].exp

\* LedgerSet giving the entry the access token's TTL
LedgerSetAccessTTL(l, tokenString, userID, now) ==
    (tokenString :> [uid |-> userID, exp |-> now + AccessTokenTTL]) @@ l

\* SET key value EX ttl
LedgerSet(l, tokenString, userID, now) ==
    (tokenString :> [uid |-> userID, exp |-> now + LedgerTTL]) @@ l

\* DEL key: no error when the key is absent
LedgerDel(l, tokenString) ==
    [t \in DOMAIN l \ {tokenString} |-> l[t]]

\* Redis drops the keys whose TTL has run out
Expire(l, now) ==
    [t \in {x \in DOMAIN l : now < l[x].exp} |-> l[t]]

ZeroUser == [ID |-> "", Username |-> "", Password |-> "", Email |-> "", OpenID |-> ""]

\* UserStore.GetByID: redis.Nil and a failed GET are both an error
GetByID(id, up, us) ==
    IF up /\ id \in DOMAIN us
    THEN [err |-> FALSE, user |-> UnmarshalUser(us[id])]
    ELSE [err |-> TRUE, user |-> ZeroUser]

\* AuthRequired taking the claims of the bearer token without validating it
AuthRequiredUnvalidated(authHeader, now) ==
    IF ~authHeader.set
    THEN [abort |-> TRUE, error |-> "Authorization header is required", userID |-> ""]
    ELSE IF Len(authHeader.rest) # 1 \/ authHeader.scheme # "Bearer"
    THEN [abort |-> TRUE, error |-> "Authorization header format must be Bearer {token}",
          userID |-> ""]
    ELSE [abort |-> FALSE, error |-> "", userID |-> authHeader.rest[1].claims.user_id]

\* ------------------------------------------------ middleware.AuthRequired
\* [abort |-> TRUE, ...] when the request is answered 401 before the handler
AuthRequired(authHeader, now) ==
    IF ~authHeader.set
    THEN [abort |-> TRUE, error |-> "Authorization header is required", userID |-> ""]
    ELSE IF Len(authHeader.rest) # 1 \/ authHeader.scheme # "Bearer"
    THEN [abort |-> TRUE, error |-> "Authorization header format must be Bearer {token}",
          userID |-> ""]
    ELSE LET v == ValidateAccessToken(authHeader.rest[1], now)
         IN  IF v.err
             THEN [abort |-> TRUE, error |-> "Invalid or expired token", userID |-> ""]
             ELSE [abort |-> FALSE, error |-> "", userID |-> v.claims.user_id]

\* ------------------------------------------------------- handler steps
\* Each step takes the goroutine's locals pr, the keyspace st, whether the
\* step's Redis call is answered (up) and the time, and yields the new locals,
\* the new keyspace and the response (NoResp while the handler goes on).
Continue(pr, st) == [pr |-> pr, st |-> st, resp |-> NoResp]

Finish(st, r) == [pr |-> Idle, st |-> st, resp |-> r]

Called(pr, up) == [pr EXCEPT !.failed = @ \/ ~up]

RegisterReq(pr) == [username |-> pr.username, password |-> pr.password]

\* AuthHandler.Register: binding, then GetByUsername's GET of the username index
RegisterGetIndex(pr, st, up) ==
    IF Len(pr.username) < 3 \/ Len(pr.username) > 30 \/ Len(pr.password) < 6
    THEN Finish(st, Response("register", StatusBadRequest, RegisterReq(pr),
                             ErrorBody("validation"), FALSE))
    ELSE IF up /\ pr.username \in DOMAIN st.usernameIdx
    THEN Continue([pr EXCEPT !.pc = "register_get_user",
                             !.id = st.usernameIdx[pr.username]], st)
    ELSE Continue([Called(pr, up) EXCEPT !.pc = "register_set_user"], st)

\* Register: GetByUsername's GetByID; err == nil answers 409, any error goes on
RegisterGetUser(pr, st, up) ==
    IF ~GetByID(pr.id, up, st.users).err
    THEN Finish(st, Response("register", StatusConflict, RegisterReq(pr),
                             ErrorBody("username already exists"), pr.failed))
    ELSE Continue([Called(pr, up) EXCEPT !.pc = "register_set_user"], st)

\* Register: bcrypt, then UserStore.Create's SET of the user record
RegisterSetUser(pr, st, up) ==
    IF ~up
    THEN Finish(st, Response("register", StatusInternalServerError, RegisterReq(pr),
                             ErrorBody("failed to create user"), TRUE))
    ELSE Continue([pr EXCEPT !.pc = "register_set_index"],
                  [st EXCEPT !.users = (pr.username :> MarshalUser(
                       [ID |-> pr.username, Username |-> pr.username,
                        Password |-> GenerateFromPassword(pr.password),
                        Email |-> CHOOSE e \in Emails : TRUE, OpenID |-> ""])) @@ @])

\* Register: UserStore.Create's SET of the username index, then 201
RegisterSetIndex(pr, st, up) ==
    IF ~up
    THEN Finish(st, Response("register", StatusInternalServerError, RegisterReq(pr),
                             ErrorBody("failed to create user"), TRUE))
    ELSE Finish([st EXCEPT !.usernameIdx = (pr.username :> pr.username) @@ @],
                Response("register", StatusCreated, RegisterReq(pr),
                         [message |-> "user registered successfully",
                          user_id |-> pr.username], pr.failed))

LoginReq(pr) == [username |-> pr.username, password |-> pr.password]

\* LoginGetIndex telling an unknown username apart (404 "user not found")
LoginGetIndexNotFound(pr, st, up) ==
    IF up /\ pr.username \in DOMAIN st.usernameIdx
    THEN Continue([pr EXCEPT !.pc = "login_get_user",
                             !.id = st.usernameIdx[pr.username]], st)
    ELSE Finish(st, Response("login", 404, LoginReq(pr),
                             ErrorBody("user not found"), ~up))

\* AuthHandler.Login: GetByUsername's GET of the username index
LoginGetIndex(pr, st, up) ==
    IF up /\ pr.username \in DOMAIN st.usernameIdx
    THEN Continue([pr EXCEPT !.pc = "login_get_user",
                             !.id = st.usernameIdx[pr.username]], st)
    ELSE Finish(st, Response("login", StatusUnauthorized, LoginReq(pr),
                             ErrorBody("invalid username or password"), ~up))

\* Login: GetByUsername's GetByID, the password check, the two tokens
LoginGetUser(pr, st, up, now) ==
    LET g == GetByID(pr.id, up, st.users)
    IN  IF g.err \/ ~CompareHashAndPassword(g.user.Password, pr.password)
        THEN Finish(st, Response("login", StatusUnauthorized, LoginReq(pr),
                                 ErrorBody("invalid username or password"), ~up))
        ELSE Continue([pr EXCEPT !.pc = "login_set_ledger",
                                 !.id = g.user.ID,
                                 !.at = GenerateAccessToken(g.user.ID, now),
                                 !.rt = GenerateRefreshToken(g.user.ID, now)], st)

\* LoginSetLedger answering with the tokens although the SET has failed
LoginSetLedgerUnchecked(pr, st, up, now) ==
    IF ~up
    THEN Finish(st, Response("login", StatusOK, LoginReq(pr),
                             TokenResponse(pr.at, pr.rt), TRUE))
    ELSE Finish([st EXCEPT !.ledger = LedgerSet(@, pr.rt, pr.id, now)],
                Response("login", StatusOK, LoginReq(pr),
                         TokenResponse(pr.at, pr.rt), pr.failed))

\* Login: the SET of the ledger entry, then the TokenResponse
LoginSetLedger(pr, st, up, now) ==
    IF ~up
    THEN Finish(st, Response("login", StatusInternalServerError, LoginReq(pr),
                             ErrorBody("failed to store refresh token"), TRUE))
    ELSE Finish([st EXCEPT !.ledger = LedgerSet(@, pr.rt, pr.id, now)],
                Response("login", StatusOK, LoginReq(pr),
                         TokenResponse(pr.at, pr.rt), pr.failed))

WeChatReq(pr) == [code |-> pr.code]

WeChatError(pr, st, msg, storeErr) ==
    Finish(st, Response("wechat", StatusInternalServerError, WeChatReq(pr),
                        ErrorBody(msg), storeErr))

\* AuthHandler.WeChatLogin: Code2Session, then CreateWeChatUser's EXISTS
WeChatExists(pr, st, up) ==
    LET openID == Code2Session(pr.code)
    IN  IF openID = ""
        THEN WeChatError(pr, st, "failed to exchange code", FALSE)
        ELSE IF ~up
        THEN WeChatError(pr, st, "failed to create user", TRUE)
        ELSE Continue([pr EXCEPT !.openid = openID,
                                 !.pc = IF openID \in DOMAIN st.openidIdx
                                        THEN "wechat_get_id" ELSE "wechat_set_user"], st)

\* CreateWeChatUser, the OpenID exists: GET of the OpenID index
WeChatGetID(pr, st, up) ==
    IF up /\ pr.openid \in DOMAIN st.openidIdx
    THEN Continue([pr EXCEPT !.pc = "wechat_get_user", !.id = st.openidIdx[pr.openid]], st)
    ELSE WeChatError(pr, st, "failed to create user", ~up)

\* CreateWeChatUser, the OpenID exists: GetByID, then WeChatLogin's two tokens
WeChatGetUser(pr, st, up, now) ==
    LET g == GetByID(pr.id, up, st.users)
    IN  IF g.err
        THEN WeChatError(pr, st, "failed to create user", ~up)
        ELSE Continue([pr EXCEPT !.pc = "wechat_set_ledger",
                                 !.id = g.user.ID,
                                 !.at = GenerateAccessToken(g.user.ID, now),
                                 !.rt = GenerateRefreshToken(g.user.ID, now)], st)

\* WeChatSetUser keying the new record by the one-time code, not the OpenID
WeChatSetUserByCode(pr, st, up) ==
    IF ~up
    THEN WeChatError(pr, st, "failed to create user", TRUE)
    ELSE Continue([pr EXCEPT !.pc = "wechat_set_username"],
                  [st EXCEPT !.users = (WxID(pr.code) :> MarshalUser(
                       [ID |-> WxID(pr.code), Username |-> WxID(pr.code),
                        Password |-> "", Email |-> "", OpenID |-> pr.openid])) @@ @])

\* CreateWeChatUser, a new OpenID: SET of the user record under "wx_"+OpenID
WeChatSetUser(pr, st, up) ==
    IF ~up
    THEN WeChatError(pr, st, "failed to create user", TRUE)
    ELSE Continue([pr EXCEPT !.pc = "wechat_set_username"],
                  [st EXCEPT !.users = (WxID(pr.openid) :> MarshalUser(
                       [ID |-> WxID(pr.openid), Username |-> WxID(pr.openid),
                        Password |-> "", Email |-> "", OpenID |-> pr.openid])) @@ @])

\* CreateWeChatUser: SET of the username index
WeChatSetUsername(pr, st, up) ==
    IF ~up
    THEN WeChatError(pr, st, "failed to create user", TRUE)
    ELSE Continue([pr EXCEPT !.pc = "wechat_set_openid"],
                  [st EXCEPT !.usernameIdx = (WxID(pr.openid) :> WxID(pr.openid)) @@ @])

\* CreateWeChatUser: SET of the OpenID index, then WeChatLogin's two tokens
WeChatSetOpenID(pr, st, up, now) ==
    IF ~up
    THEN WeChatError(pr, st, "failed to create user", TRUE)
    ELSE Continue([pr EXCEPT !.pc = "wechat_set_ledger",
                             !.id = WxID(pr.openid),
                             !.at = GenerateAccessToken(WxID(pr.openid), now),
                             !.rt = GenerateRefreshToken(WxID(pr.openid), now)],
                  [st EXCEPT !.openidIdx = (pr.openid :> WxID(pr.openid)) @@ @])

\* WeChatSetLedger storing the OpenID, not the user id, as the entry's value
WeChatSetLedgerByOpenID(pr, st, up, now) ==
    IF ~up
    THEN WeChatError(pr, st, "failed to store refresh token", TRUE)
    ELSE Finish([st EXCEPT !.ledger = LedgerSet(@, pr.rt, pr.openid, now)],
                Response("wechat", StatusOK, WeChatReq(pr),
                         TokenResponse(pr.at, pr.rt), pr.failed))

\* WeChatLogin: the SET of the ledger entry, then the TokenResponse
WeChatSetLedger(pr, st, up, now) ==
    IF ~up
    THEN WeChatError(pr, st, "failed to store refresh token", TRUE)
    ELSE Finish([st EXCEPT !.ledger = LedgerSet(@, pr.rt, pr.id, now)],
                Response("wechat", StatusOK, WeChatReq(pr),
                         TokenResponse(pr.at, pr.rt), pr.failed))

\* RefreshToken without the ledger: any valid refresh token is honoured
RefreshTokenHandlerNoLedger(pr, st, up, now) ==
    LET v == ValidateRefreshToken(pr.token, now)
        req == [refresh_token |-> pr.token]
    IN  IF v.err
        THEN Finish(st, Response("refresh", StatusUnauthorized, req,
                                 ErrorBody("invalid refresh token"), FALSE))
        ELSE Finish(st, Response("refresh", StatusOK, req,
                                 [access_token |-> GenerateAccessToken(v.claims.user_id, now),
                                  expires_in |-> ExpiresIn], FALSE))

\* RefreshToken extending the presented token's ledger entry on success
RefreshTokenHandlerExtending(pr, st, up, now) ==
    LET v == ValidateRefreshToken(pr.token, now)
        req == [refresh_token |-> pr.token]
    IN  IF v.err
        THEN Finish(st, Response("refresh", StatusUnauthorized, req,
                                 ErrorBody("invalid refresh token"), FALSE))
        ELSE IF ~up \/ ~LedgerLive(st.ledger, pr.token, now)
        THEN Finish(st, Response("refresh", StatusUnauthorized, req,
                                 ErrorBody("refresh token has been revoked"), ~up))
        ELSE IF st.ledger[pr.token].uid # v.claims.user_id
        THEN Finish(st, Response("refresh", StatusUnauthorized, req,
                                 ErrorBody("invalid refresh token"), FALSE))
        ELSE Finish([st EXCEPT !.ledger = LedgerSet(@, pr.token, v.claims.user_id, now)],
                    Response("refresh", StatusOK, req,
                             [access_token |-> GenerateAccessToken(v.claims.user_id, now),
                              expires_in |-> ExpiresIn], FALSE))

\* AuthHandler.RefreshToken (the name RefreshToken is the TokenType above)
RefreshTokenHandler(pr, st, up, now) ==
    LET v == ValidateRefreshToken(pr.token, now)
        req == [refresh_token |-> pr.token]
    IN  IF v.err
        THEN Finish(st, Response("refresh", StatusUnauthorized, req,
                                 ErrorBody("invalid refresh token"), FALSE))
        ELSE IF ~up \/ ~LedgerLive(st.ledger, pr.token, now)
        THEN Finish(st, Response("refresh", StatusUnauthorized, req,
                                 ErrorBody("refresh token has been revoked"), ~up))
        ELSE IF st.ledger[pr.token].uid # v.claims.user_id
        THEN Finish(st, Response("refresh", StatusUnauthorized, req,
                                 ErrorBody("invalid refresh token"), FALSE))
        ELSE Finish(st, Response("refresh", StatusOK, req,
                                 [access_token |-> GenerateAccessToken(v.claims.user_id, now),
                                  expires_in |-> ExpiresIn], FALSE))

\* Logout treating a DEL that removed nothing as an error
LogoutStrict(pr, st, up) ==
    IF ~up \/ pr.token \notin DOMAIN st.ledger
    THEN Finish(st, Response("logout", StatusInternalServerError,
                             [refresh_token |-> pr.token],
                             ErrorBody("failed to logout"), ~up))
    ELSE Finish([st EXCEPT !.ledger = LedgerDel(@, pr.token)],
                Response("logout", StatusOK, [refresh_token |-> pr.token],
                         [message |-> "logged out successfully"], FALSE))

\* Logout validating the presented string as a refresh token first
LogoutValidating(pr, st, up) ==
    IF ValidateRefreshToken(pr.token, 0).err
    THEN Finish(st, Response("logout", StatusUnauthorized,
                             [refresh_token |-> pr.token],
                             ErrorBody("invalid refresh token"), FALSE))
    ELSE IF ~up
    THEN Finish(st, Response("logout", StatusInternalServerError,
                             [refresh_token |-> pr.token],
                             ErrorBody("failed to logout"), TRUE))
    ELSE Finish([st EXCEPT !.ledger = LedgerDel(@, pr.token)],
                Response("logout", StatusOK, [refresh_token |-> pr.token],
                         [message |-> "logged out successfully"], FALSE))

\* AuthHandler.Logout
Logout(pr, st, up) ==
    IF ~up
    THEN Finish(st, Response("logout", StatusInternalServerError,
                             [refresh_token |-> pr.token],
                             ErrorBody("failed to logout"), TRUE))
    ELSE Finish([st EXCEPT !.ledger = LedgerDel(@, pr.token)],
                Response("logout", StatusOK, [refresh_token |-> pr.token],
                         [message |-> "logged out successfully"], FALSE))

\* AuthRequired, then AuthHandler.Me
Me(pr, st, up, now) ==
    LET a == AuthRequired(pr.header, now)
        req == [authorization |-> pr.header]
    IN  IF a.abort
        THEN Finish(st, Response("me", StatusUnauthorized, req, ErrorBody(a.error), FALSE))
        ELSE LET g == GetByID(a.userID, up, st.users)
             IN  IF g.err
                 THEN Finish(st, Response("me", StatusInternalServerError, req,
                                          ErrorBody("failed to get user"), ~up))
                 ELSE Finish(st, Response("me", StatusOK, req, MarshalUser(g.user), FALSE))

\* A protected route that also wants a live ledger entry of the principal
ApiProtectedLedger(pr, st, now) ==
    LET a == AuthRequired(pr.header, now)
        req == [authorization |-> pr.header]
    IN  IF a.abort \/ ~\E t \in DOMAIN st.ledger : st.ledger[t].uid = a.userID
        THEN Finish(st, Response("protected", StatusUnauthorized, req,
                                 ErrorBody("Invalid or expired token"), FALSE))
        ELSE Finish(st, Response("protected", StatusOK, req,
                                 [message |-> "This is a protected endpoint",
                                  user_id |-> a.userID], FALSE))

\* AuthRequired, then GET /api/protected (main.go)
ApiProtected(pr, st, now) ==
    LET a == AuthRequired(pr.header, now)
        req == [authorization |-> pr.header]
    IN  IF a.abort
        THEN Finish(st, Response("protected", StatusUnauthorized, req,
                                 ErrorBody(a.error), FALSE))
        ELSE Finish(st, Response("protected", StatusOK, req,
                                 [message |-> "This is a protected endpoint",
                                  user_id |-> a.userID], FALSE))

\* A UserStore call made directly returns to its caller: no HTTP response
Return(st) == [pr |-> Idle, st |-> st, resp |-> NoResp]

Without(f, k) == [x \in DOMAIN f \ {k} |-> f[x]]

\* UserStore.Delete: GetByID for the username and the OpenID
DeleteGetUser(pr, st, up) ==
    LET g == GetByID(pr.id, up, st.users)
    IN  IF g.err
        THEN Return(st)
        ELSE Continue([pr EXCEPT !.pc = "delete_del_user",
                                 !.username = g.user.Username,
                                 !.openid = g.user.OpenID], st)

\* Delete: DEL of the user record
DeleteDelUser(pr, st, up) ==
    IF ~up
    THEN Return(st)
    ELSE Continue([pr EXCEPT !.pc = "delete_del_username"],
                  [st EXCEPT !.users = Without(@, pr.id)])

\* Delete: DEL of the username index
DeleteDelUsername(pr, st, up) ==
    IF ~up
    THEN Return(st)
    ELSE IF pr.openid # ""
    THEN Continue([pr EXCEPT !.pc = "delete_del_openid"],
                  [st EXCEPT !.usernameIdx = Without(@, pr.username)])
    ELSE Return([st EXCEPT !.usernameIdx = Without(@, pr.username)])

\* Delete: DEL of the OpenID index
DeleteDelOpenID(pr, st, up) ==
    IF ~up
    THEN Return(st)
    ELSE Return([st EXCEPT !.openidIdx = Without(@, pr.openid)])

\* The step the goroutine is at
Step(pr, st, up, now) ==
    CASE pr.pc = "register_get_index" -> RegisterGetIndex(pr, st, up)
      [] pr.pc = "register_get_user" -> RegisterGetUser(pr, st, up)
      [] pr.pc = "register_set_user" -> RegisterSetUser(pr, st, up)
      [] pr.pc = "register_set_index" -> RegisterSetIndex(pr, st, up)
      [] pr.pc = "login_get_index" -> LoginGetIndex(pr, st, up)
      [] pr.pc = "login_get_user" -> LoginGetUser(pr, st, up, now)
      [] pr.pc = "login_set_ledger" -> LoginSetLedger(pr, st, up, now)
      [] pr.pc = "wechat_exists" -> WeChatExists(pr, st, up)
      [] pr.pc = "wechat_get_id" -> WeChatGetID(pr, st, up)
      [] pr.pc = "wechat_get_user" -> WeChatGetUser(pr, st, up, now)
      [] pr.pc = "wechat_set_user" -> WeChatSetUser(pr, st, up)
      [] pr.pc = "wechat_set_username" -> WeChatSetUsername(pr, st, up)
      [] pr.pc = "wechat_set_openid" -> WeChatSetOpenID(pr, st, up, now)
      [] pr.pc = "wechat_set_ledger" -> WeChatSetLedger(pr, st, up, now)
      [] pr.pc = "refresh" -> RefreshTokenHandler(pr, st, up, now)
      [] pr.pc = "logout" -> Logout(pr, st, up)
      [] pr.pc = "me" -> Me(pr, st, up, now)
      [] pr.pc = "protected" -> ApiProtected(pr, st, now)
      [] pr.pc = "delete_get_user" -> DeleteGetUser(pr, st, up)
      [] pr.pc = "delete_del_user" -> DeleteDelUser(pr, st, up)
      [] pr.pc = "delete_del_username" -> DeleteDelUsername(pr, st, up)
      [] pr.pc = "delete_del_openid" -> DeleteDelOpenID(pr, st, up)

\* A request run to its response with no other request in between; ups[i] tells
\* whether its i-th Redis call is answered
RECURSIVE Run(_, _, _, _)
Run(pr, st, ups, now) ==
    LET r == Step(pr, st, Head(ups), now)
    IN  IF r.resp.op # "none" THEN r ELSE Run(r.pr, r.st, Tail(ups), now)

\* ------------------------------------------------- what a client can send
Retyped(t) ==
    [t EXCEPT !.claims.type = IF @ = AccessToken THEN RefreshToken ELSE AccessToken]

Resigned(t) == [t EXCEPT !.sig = EncodeSegment(HS256("attacker", t.claims))]

\* The last character of the signature segment replaced by its neighbour in
\* the base64 alphabet: the unused bits change, the MAC bytes do not
LastCharChanged(t) == [t EXCEPT !.sig.bits = 1]

AlgNone(t) == [t EXCEPT !.alg = "none"]

Presentable ==
    issued \cup {Retyped(t) : t \in issued} \cup {Resigned(t) : t \in issued}
           \cup {AlgNone(t) : t \in issued} \cup {LastCharChanged(t) : t \in issued}
           \cup {Malformed}

Bearer(t) == [set |-> TRUE, scheme |-> "Bearer", rest |-> <<t>>]

BadHeaders ==
    {NoHeader, [set |-> TRUE, scheme |-> "Basic", rest |-> <<Malformed>>],
     [set |-> TRUE, scheme |-> "Bearer", rest |-> <<>>]}

Headers == BadHeaders \cup {Bearer(t) : t \in Presentable}

\* Which Redis calls of a request are answered: at most MaxFailures are not
Schedules(n) ==
    {ups \in [1..n -> BOOLEAN] : Cardinality({i \in 1..n : ~ups[i]}) <= MaxFailures}

\* The tokens a response hands to the client
TokensOf(r) ==
    IF r.status # StatusOK THEN {}
    ELSE (IF "access_token" \in DOMAIN r.body THEN {r.body.access_token} ELSE {})
         \cup (IF "refresh_token" \in DOMAIN r.body THEN {r.body.refresh_token} ELSE {})

\* The tokens a response has revoked
RevokedBy(r) ==
    IF r.op = "logout" /\ r.status = StatusOK THEN {r.req.refresh_token} ELSE {}

\* The principal a WeChatLogin response has issued tokens for
WeChatLoginBy(r) ==
    IF r.op = "wechat" /\ r.status = StatusOK
    THEN {[openid |-> Code2Session(r.req.code),
           user_id |-> r.body.access_token.claims.user_id]}
    ELSE {}

\* main up to router.Run: Redis answers the ping and holds no keys
Startup ==
    /\ clock = 0
    /\ ticks = 0
    /\ users = <<>>
    /\ usernameIdx = <<>>
    /\ openidIdx = <<>>
    /\ ledger = <<>>
    /\ proc = [p \in Procs |-> Idle]
    /\ resp = NoResp
    /\ issued = {}
    /\ revoked = {}
    /\ wechatLogins = {}

\* The service started with JWT_SECRET_KEY set
Init == env = "jwt-secret" /\ Startup

\* The service started with whatever JWT_SECRET_KEY the environment holds
InitAnyEnv == env \in SecretKeys /\ Startup

\* The effect of a step or a run r on the keyspace and on what clients hold
Effect(r) ==
    /\ users' = r.st.users
    /\ usernameIdx' = r.st.usernameIdx
    /\ openidIdx' = r.st.openidIdx
    /\ ledger' = r.st.ledger
    /\ resp' = r.resp
    /\ issued' = issued \cup TokensOf(r.resp)
    /\ Cardinality(issued') <= MaxIssued
    /\ revoked' = revoked \cup (RevokedBy(r.resp) \cap issued)
    /\ wechatLogins' = wechatLogins \cup WeChatLoginBy(r.resp)

\* Time passes
Tick(d) ==
    /\ resp.op = "none"
    /\ ticks < MaxTicks
    /\ clock' = clock + d
    /\ ticks' = ticks + 1
    /\ ledger' = Expire(ledger, clock + d)
    /\ resp' = NoResp
    /\ UNCHANGED <<env, users, usernameIdx, openidIdx, proc, issued, revoked, wechatLogins>>

\* The response has gone out to the client
Deliver ==
    /\ resp.op # "none"
    /\ resp' = NoResp
    /\ UNCHANGED <<env, clock, ticks, users, usernameIdx, openidIdx, ledger, proc, issued,
                   revoked, wechatLogins>>

\* ---------------------------------------- requests served one at a time
Serve(pr, ups) ==
    /\ resp.op = "none"
    /\ \A p \in Procs : proc[p].pc = "idle"
    /\ Effect(Run(pr, Store, ups, clock))
    /\ UNCHANGED <<env, clock, ticks, proc>>

RegisterRequest(username, password) ==
    [Idle EXCEPT !.pc = "register_get_index", !.username = username, !.password = password]

LoginRequest(username, password) ==
    [Idle EXCEPT !.pc = "login_get_index", !.username = username, !.password = password]

WeChatLoginRequest(code) == [Idle EXCEPT !.pc = "wechat_exists", !.code = code]

RefreshRequest(tokenString) == [Idle EXCEPT !.pc = "refresh", !.token = tokenString]

LogoutRequest(tokenString) == [Idle EXCEPT !.pc = "logout", !.token = tokenString]

MeRequest(authHeader) == [Idle EXCEPT !.pc = "me", !.header = authHeader]

ProtectedRequest(authHeader) == [Idle EXCEPT !.pc = "protected", !.header = authHeader]

PostRegister(username, password, ups) == Serve(RegisterRequest(username, password), ups)

PostLogin(username, password, ups) == Serve(LoginRequest(username, password), ups)

PostWeChatLogin(code, ups) == Serve(WeChatLoginRequest(code), ups)

PostRefresh(tokenString, ups) == Serve(RefreshRequest(tokenString), ups)

PostLogout(tokenString, ups) == Serve(LogoutRequest(tokenString), ups)

GetMe(authHeader, ups) == Serve(MeRequest(authHeader), ups)

GetApiProtected(authHeader, ups) == Serve(ProtectedRequest(authHeader), ups)

Next ==
    \/ \E d \in TickSteps : Tick(d)
    \/ Deliver
    \/ \E u \in RegisterUsernames, pw \in RegisterPasswords, ups \in Schedules(4) :
           PostRegister(u, pw, ups)
    \/ \E u \in Usernames, pw \in Passwords, ups \in Schedules(3) : PostLogin(u, pw, ups)
    \/ \E c \in Codes, ups \in Schedules(5) : PostWeChatLogin(c, ups)
    \/ \E t \in Presentable, ups \in Schedules(1) : PostRefresh(t, ups)
    \/ \E t \in issued \cup {Malformed}, ups \in Schedules(1) : PostLogout(t, ups)
    \/ \E t \in issued, ups \in Schedules(1) : GetMe(Bearer(t), ups)
    \/ \E h \in Headers, ups \in Schedules(1) : GetApiProtected(h, ups)

Spec == Init /\ [][Next]_vars

\* The same service in any environment main starts in
SpecAnyEnv == InitAnyEnv /\ [][Next]_vars

\* --------------------------------------------- requests served concurrently
\* A goroutine takes up a request and makes its first step
Begin(p, pr, up) ==
    /\ resp.op = "none"
    /\ proc[p].pc = "idle"
    /\ LET r == Step(pr, Store, up, clock)
       IN  Effect(r) /\ proc' = [proc EXCEPT ![p] = r.pr]
    /\ UNCHANGED <<env, clock, ticks>>

\* A goroutine makes the next step of its handler
Advance(p, up) ==
    /\ resp.op = "none"
    /\ proc[p].pc # "idle"
    /\ LET r == Step(proc[p], Store, up, clock)
       IN  Effect(r) /\ proc' = [proc EXCEPT ![p] = r.pr]
    /\ UNCHANGED <<env, clock, ticks>>

ConcRegister(p, username, password, up) == Begin(p, RegisterRequest(username, password), up)

ConcLogin(p, username, password, up) == Begin(p, LoginRequest(username, password), up)

ConcWeChatLogin(p, code, up) == Begin(p, WeChatLoginRequest(code), up)

ConcRefresh(p, tokenString, up) == Begin(p, RefreshRequest(tokenString), up)

ConcLogout(p, tokenString, up) == Begin(p, LogoutRequest(tokenString), up)

NextConc ==
    \/ Deliver
    \/ \E p \in Procs, u \in Usernames, pw \in RegisterPasswords, up \in BOOLEAN :
           ConcRegister(p, u, pw, up)
    \/ \E p \in Procs, u \in Usernames, pw \in RegisterPasswords, up \in BOOLEAN :
           ConcLogin(p, u, pw, up)
    \/ \E p \in Procs, c \in Codes, up \in BOOLEAN : ConcWeChatLogin(p, c, up)
    \/ \E p \in Procs, t \in issued, up \in BOOLEAN : ConcRefresh(p, t, up)
    \/ \E p \in Procs, t \in issued, up \in BOOLEAN : ConcLogout(p, t, up)
    \/ \E p \in Procs, up \in BOOLEAN : Advance(p, up)

SpecConc == Init /\ [][NextConc]_vars

\* WeChatLogin requests served concurrently, among the requests that use the
\* tokens they issue; no Register request is made
NextWeChat ==
    \/ Deliver
    \/ \E p \in Procs, c \in Codes, up \in BOOLEAN : ConcWeChatLogin(p, c, up)
    \/ \E p \in Procs, t \in issued, up \in BOOLEAN : ConcRefresh(p, t, up)
    \/ \E p \in Procs, t \in issued, up \in BOOLEAN : ConcLogout(p, t, up)
    \/ \E p \in Procs, up \in BOOLEAN : Advance(p, up)

SpecWeChat == Init /\ [][NextWeChat]_vars

\* Register requests served concurrently, every Redis call answered
NextRegister ==
    \/ Deliver
    \/ \E p \in Procs, u \in Usernames, pw \in Passwords : ConcRegister(p, u, pw, TRUE)
    \/ \E p \in Procs : Advance(p, TRUE)

SpecRegister == Init /\ [][NextRegister]_vars

\* ------------------------------------------- the UserStore and its callers
DeleteRequest(id) == [Idle EXCEPT !.pc = "delete_get_user", !.id = id]

\* UserStore.Delete called for an id
CallDelete(p, id, up) == Begin(p, DeleteRequest(id), up)

\* Create (through Register), CreateWeChatUser (through WeChatLogin) and
\* Delete, called concurrently, any Redis call of theirs failing
NextStore ==
    \/ Deliver
    \/ \E p \in Procs, u \in Usernames, pw \in RegisterPasswords, up \in BOOLEAN :
           ConcRegister(p, u, pw, up)
    \/ \E p \in Procs, c \in Codes, up \in BOOLEAN : ConcWeChatLogin(p, c, up)
    \/ \E p \in Procs, id \in Usernames, up \in BOOLEAN : CallDelete(p, id, up)
    \/ \E p \in Procs, up \in BOOLEAN : Advance(p, up)

SpecStore == Init /\ [][NextStore]_vars

\* ================================================================ claims
\* Helper notions of the claims
IsRefreshResp == resp.op = "refresh"

GrantsAccessToken(r) == r.status = StatusOK /\ "access_token" \in DOMAIN r.body

\* (a) signature, expiry and kind=refresh validate, (b) a ledger entry keyed
\* by the exact token value exists, (c) its value is the token's subject
Usable(t) ==
    /\ t.alg = "HS256" /\ DecodeSegment(t.sig) = HS256(SecretKey, t.claims)
    /\ t.claims.nbf <= clock /\ clock < t.claims.exp
    /\ t.claims.type = RefreshToken
    /\ t \in DOMAIN ledger
    /\ ledger[t].uid = t.claims.user_id

\* The refresh tokens Login and WeChatLogin have returned
IssuedRefreshTokens == {t \in issued : t.claims.type = RefreshToken}

\* The access tokens Login, WeChatLogin and Refresh have returned
IssuedAccessTokens == {t \in issued : t.claims.type = AccessToken}

Unexpired(t) == clock < t.claims.exp

\* C1 as stated: a Refresh response carries a new access token if and only if
\* (a), (b) and (c) hold of the presented token.
C1_RefreshIffUsable ==
    IsRefreshResp => (GrantsAccessToken(resp) <=> Usable(resp.req.refresh_token))

\* C1 amended: a Refresh response carries a new access token if and only if
\* (a), (b) and (c) hold of the presented token and Redis answers the ledger
\* lookup; in every other case no access token is returned.
C1_RefreshIffUsableAndAnswered ==
    IsRefreshResp =>
        (GrantsAccessToken(resp) <=> (Usable(resp.req.refresh_token) /\ ~resp.storeErr))

\* C1 witness: a Refresh has answered 200 with a new access token for a live token,
\* after the same handler refused a token whose ledger entry was gone.
C1_Witness ==
    /\ IsRefreshResp /\ GrantsAccessToken(resp)
    /\ Usable(resp.req.refresh_token)
    /\ resp.req.refresh_token \in revoked

\* C2: a refresh token returned by Login or WeChatLogin passes Refresh while it
\* is neither logged out nor expired (Redis answering), and every Refresh after
\* a successful Logout on it, or after its expiry, answers 401.
C2_RefreshUntilLogoutOrExpiry ==
    (IsRefreshResp /\ resp.req.refresh_token \in IssuedRefreshTokens) =>
        /\ (/\ resp.req.refresh_token \notin revoked
            /\ Unexpired(resp.req.refresh_token)
            /\ ~resp.storeErr) => GrantsAccessToken(resp)
        /\ (\/ resp.req.refresh_token \in revoked
            \/ ~Unexpired(resp.req.refresh_token)) => resp.status = StatusUnauthorized

\* C3: the 200 response of GET /me never carries the password field.
C3_MeOmitsPassword ==
    (resp.op = "me" /\ resp.status = StatusOK) => "password" \notin DOMAIN resp.body

\* C2 scenario reached: a Refresh answered 200 for a token that a Logout had
\* answered 200 for before.
C2_Reached ==
    /\ IsRefreshResp /\ GrantsAccessToken(resp)
    /\ resp.req.refresh_token \in revoked

\* The identity ids tokens are issued for, and how long after issue they are used
IdentityIDs == Usernames \cup {WxID(Code2Session(c)) : c \in Codes \ {"bad"}}

Delays == {0, 1, AccessTokenTTL - 1, AccessTokenTTL, RefreshTokenTTL - 1, RefreshTokenTTL}

\* C4: ValidateRefreshToken fails on every token of GenerateAccessToken and
\* ValidateAccessToken on every token of GenerateRefreshToken, for every subject,
\* whenever it is presented, also while correctly signed and unexpired.
C4_KindIsolation ==
    /\ \A id \in IdentityIDs, d \in Delays :
          /\ ValidateRefreshToken(GenerateAccessToken(id, clock), clock + d).err
          /\ ValidateAccessToken(GenerateRefreshToken(id, clock), clock + d).err
    /\ \A t \in IssuedAccessTokens : ValidateRefreshToken(t, clock).err
    /\ \A t \in IssuedRefreshTokens : ValidateAccessToken(t, clock).err

\* C4 witness: an issued, correctly signed, unexpired access token and such a
\* refresh token exist, each refused by the other kind's validator.
C4_Witness ==
    /\ \E t \in IssuedAccessTokens :
          ~ValidateToken(t, clock).err /\ ValidateRefreshToken(t, clock).err
    /\ \E t \in IssuedRefreshTokens :
          ~ValidateToken(t, clock).err /\ ValidateAccessToken(t, clock).err

BearerOf(r) == r.req.authorization.rest[1]

IsProtectedResp ==
    /\ resp.op \in {"me", "protected"}
    /\ resp.req.authorization.scheme = "Bearer"
    /\ Len(resp.req.authorization.rest) = 1

\* C5: a validly signed, unexpired access token sent to POST /refresh is answered
\* 401 without an access token, and a validly signed, unexpired refresh token
\* sent as the bearer of a protected route is answered 401, in every ledger state.
C5_EndpointKindIsolation ==
    /\ (/\ IsRefreshResp
        /\ resp.req.refresh_token \in IssuedAccessTokens
        /\ Unexpired(resp.req.refresh_token))
          => (resp.status = StatusUnauthorized /\ ~GrantsAccessToken(resp))
    /\ (/\ IsProtectedResp
        /\ BearerOf(resp) \in IssuedRefreshTokens
        /\ Unexpired(BearerOf(resp)))
          => (resp.status = StatusUnauthorized /\ DOMAIN resp.body = {"error"})

\* C5 witness: a protected route has refused a refresh token that is live in
\* the ledger.
C5_Witness ==
    /\ IsProtectedResp /\ resp.op = "protected"
    /\ BearerOf(resp) \in IssuedRefreshTokens
    /\ Usable(BearerOf(resp))
    /\ resp.status = StatusUnauthorized

\* C5 witness at /refresh: an unexpired access token has been refused there.
C5_WitnessRefresh ==
    /\ IsRefreshResp
    /\ resp.req.refresh_token \in IssuedAccessTokens
    /\ ~ValidateAccessToken(resp.req.refresh_token, clock).err
    /\ resp.status = StatusUnauthorized

\* C6: the token of GenerateAccessToken(I) validates with ValidateAccessToken
\* at every time before its expiry and yields subject I and kind access;
\* likewise GenerateRefreshToken(I) with ValidateRefreshToken.
C6_IssueValidateRoundTrip ==
    \A id \in IdentityIDs, d \in Delays :
        LET at == GenerateAccessToken(id, clock)
            rt == GenerateRefreshToken(id, clock)
            va == ValidateAccessToken(at, clock + d)
            vr == ValidateRefreshToken(rt, clock + d)
        IN  /\ clock + d < at.claims.exp =>
                (~va.err /\ va.claims.user_id = id /\ va.claims.type = AccessToken)
            /\ clock + d < rt.claims.exp =>
                (~vr.err /\ vr.claims.user_id = id /\ vr.claims.type = RefreshToken)

\* C6 witness: Login has issued tokens for alice off the full second, and both
\* validate with subject alice.
C6_Witness ==
    /\ resp.op = "login" /\ resp.status = StatusOK
    /\ clock % TicksPerSecond # 0
    /\ ValidateAccessToken(resp.body.access_token, clock).claims.user_id = "alice"
    /\ ValidateRefreshToken(resp.body.refresh_token, clock).claims.user_id = "alice"

\* C7: with Redis answering, Logout answers 200 whether or not a ledger entry
\* exists; a second Logout on the same token answers 200 too and leaves the
\* keyspace as the first left it.
C7_LogoutIdempotent ==
    /\ (resp.op = "logout" /\ ~resp.storeErr) => resp.status = StatusOK
    /\ (resp.op = "logout" /\ resp.status = StatusOK) =>
          LET again == Run(LogoutRequest(resp.req.refresh_token), Store, <<TRUE>>, clock)
          IN  /\ again.resp.status = StatusOK
              /\ again.st = Store
              /\ resp.req.refresh_token \notin DOMAIN ledger

\* C7 witness: Logout has answered 200 for a token that it had already answered
\* 200 for, and that had a ledger entry before.
C7_Witness ==
    /\ resp.op = "logout" /\ resp.status = StatusOK
    /\ resp.req.refresh_token \in IssuedRefreshTokens
    /\ resp.req.refresh_token \in revoked

\* C7 witness without an entry: Logout has answered 200 for a string that never
\* had a ledger entry.
C7_WitnessAbsent ==
    /\ resp.op = "logout" /\ resp.status = StatusOK
    /\ resp.req.refresh_token = Malformed

\* C8: an unexpired access token issued by Login, WeChatLogin or Refresh passes
\* AuthRequired in every ledger state, also after Logout has deleted the
\* session's refresh token: the protected route is never answered 401.
C8_AccessTokenNotRevocable ==
    /\ \A t \in IssuedAccessTokens :
          Unexpired(t) =>
              (/\ ~AuthRequired(Bearer(t), clock).abort
               /\ AuthRequired(Bearer(t), clock).userID = t.claims.user_id)
    /\ (/\ IsProtectedResp
        /\ BearerOf(resp) \in IssuedAccessTokens
        /\ Unexpired(BearerOf(resp))) => resp.status # StatusUnauthorized

\* C8 witness: a protected route has answered 200 for an access token whose
\* session's refresh token has been logged out and has no ledger entry.
C8_Witness ==
    /\ IsProtectedResp /\ resp.op = "protected" /\ resp.status = StatusOK
    /\ BearerOf(resp) \in IssuedAccessTokens
    /\ \E rt \in revoked :
          /\ rt.claims.user_id = BearerOf(resp).claims.user_id
          /\ rt.claims.iat = BearerOf(resp).claims.iat
    /\ ledger = <<>>

\* What a client sees of a response
Seen(r) == [status |-> r.status, body |-> r.body]

\* A username GetByUsername finds, and one it does not
Existing(u) == u \in DOMAIN usernameIdx /\ usernameIdx[u] \in DOMAIN users

WrongPassword(u, pw) ==
    ~CompareHashAndPassword(UnmarshalUser(users[usernameIdx[u]]).Password, pw)

\* C9: in every store state, Login with an existing username and a wrong
\* password and Login with a nonexistent username get the same status, 401,
\* and the same body.
C9_LoginIndistinguishable ==
    \A u1 \in Usernames, u2 \in Usernames, pw1 \in Passwords, pw2 \in Passwords,
       ups1 \in Schedules(3), ups2 \in Schedules(3) :
        (Existing(u1) /\ WrongPassword(u1, pw1) /\ ~Existing(u2)) =>
            /\ Seen(Run(LoginRequest(u1, pw1), Store, ups1, clock).resp)
                 = Seen(Run(LoginRequest(u2, pw2), Store, ups2, clock).resp)
            /\ Run(LoginRequest(u1, pw1), Store, ups1, clock).resp.status
                 = StatusUnauthorized

\* C9 witness: Login has answered 401 for a registered username with a wrong
\* password while another username is not registered.
C9_Witness ==
    /\ resp.op = "login" /\ resp.status = StatusUnauthorized /\ ~resp.storeErr
    /\ Existing(resp.req.username)
    /\ WrongPassword(resp.req.username, resp.req.password)
    /\ \E u \in Usernames : ~Existing(u)

\* The identity records that carry an OpenID
RecordsOf(openID) == {id \in DOMAIN users : UnmarshalUser(users[id]).OpenID = openID}

OpenIDs == {Code2Session(c) : c \in Codes \ {"bad"}}

\* C10: all WeChatLogin responses for one OpenID issue tokens for the same
\* principal id, and the store holds exactly one identity record for an OpenID
\* that has logged in, never two.
C10_FindOrCreate ==
    /\ \A a \in wechatLogins, b \in wechatLogins :
          a.openid = b.openid => a.user_id = b.user_id
    /\ \A o \in OpenIDs : Cardinality(RecordsOf(o)) <= 1
    /\ \A l \in wechatLogins :
          /\ RecordsOf(l.openid) = {l.user_id}
          /\ l.openid \in DOMAIN openidIdx /\ openidIdx[l.openid] = l.user_id

\* C10 witness: two WeChatLogin requests with different codes for one OpenID
\* were in flight together, both past the EXISTS that found no user, and one
\* has answered 200.
C10_Witness ==
    /\ resp.op = "wechat" /\ resp.status = StatusOK
    /\ \E p \in Procs :
          /\ proc[p].pc \in {"wechat_set_user", "wechat_set_username", "wechat_set_openid"}
          /\ proc[p].code # resp.req.code
          /\ Code2Session(proc[p].code) = Code2Session(resp.req.code)

\* The Authorization headers AuthRequired refuses at the present time
Refused(h) == AuthRequired(h, clock).abort

\* C11: every request AuthRequired rejects gets one and the same outcome: the
\* rejection a protected route has answered equals, in status and body, the
\* rejection of every other refused header (missing, malformed, badly signed,
\* expired, wrong kind) in the same state.
C11_UniformRejection ==
    (resp.op \in {"me", "protected"} /\ Refused(resp.req.authorization)) =>
        \A h \in Headers :
            Refused(h) =>
                Seen(Run(ProtectedRequest(h), Store, <<TRUE>>, clock).resp) = Seen(resp)

\* C11, the part the code keeps: every refused request is answered 401 with
\* an error body only, and the handler's 200 is never sent for it.
C11_Rejected401 ==
    (resp.op \in {"me", "protected"} /\ Refused(resp.req.authorization)) =>
        (resp.status = StatusUnauthorized /\ DOMAIN resp.body = {"error"})

\* C12: a request of Register, Login, WeChatLogin, Refresh or Logout in which a
\* Redis call failed is answered 500, never 401, 409 or a success.
C12_StoreFailureIs500 ==
    (/\ resp.op \in {"register", "login", "wechat", "refresh", "logout"}
     /\ resp.storeErr) => resp.status = StatusInternalServerError

\* C13: a process started with an empty JWT_SECRET_KEY never serves requests,
\* so no token signed with the empty key is ever handed out and none passes
\* AuthRequired.
C13_EmptySecretNeverServes ==
    SecretKey = "" =>
        /\ issued = {}
        /\ ~(resp.op \in {"me", "protected"} /\ resp.status = StatusOK)

\* The number of Redis calls a request makes when all of them are answered
RECURSIVE Calls(_, _, _)
Calls(pr, st, now) ==
    LET r == Step(pr, st, TRUE, now)
    IN  IF r.resp.op # "none" THEN 1 ELSE 1 + Calls(r.pr, r.st, now)

\* All Redis calls of a request answered; all but the n-th answered
AllUp == [i \in 1..5 |-> TRUE]

FailAt(n) == [i \in 1..5 |-> i # n]

HasTokens(r) == "access_token" \in DOMAIN r.body \/ "refresh_token" \in DOMAIN r.body

\* The requests of Login and WeChatLogin
IssuingRequests ==
    {LoginRequest(u, pw) : u \in Usernames, pw \in Passwords}
        \cup {WeChatLoginRequest(c) : c \in Codes}

\* C14: a Login or WeChatLogin response carries tokens only with status 200 and
\* with the refresh token's ledger entry written for its subject; and every
\* Login or WeChatLogin that would succeed is, when its ledger write (its last
\* Redis call) fails instead, answered 500 without tokens and without a ledger
\* entry.
C14_NoTokensOnFailure ==
    /\ (resp.op \in {"login", "wechat"} /\ HasTokens(resp)) =>
          /\ resp.status = StatusOK
          /\ resp.body.refresh_token \in DOMAIN ledger
          /\ ledger[resp.body.refresh_token].uid = resp.body.refresh_token.claims.user_id
    /\ (resp.op \in {"login", "wechat"} /\ resp.status # StatusOK) => ~HasTokens(resp)
    /\ \A pr \in IssuingRequests :
          Run(pr, Store, AllUp, clock).resp.status = StatusOK =>
              LET r == Run(pr, Store, FailAt(Calls(pr, Store, clock)), clock)
              IN  /\ r.resp.status = StatusInternalServerError
                  /\ ~HasTokens(r.resp)
                  /\ r.st.ledger = ledger

\* C14 witness: the ledger write of a Login with the right password has failed
\* and the response is the 500 without tokens.
C14_Witness ==
    /\ resp.op = "login" /\ resp.status = StatusInternalServerError
    /\ resp.storeErr /\ ~HasTokens(resp)
    /\ Existing(resp.req.username)
    /\ ~WrongPassword(resp.req.username, resp.req.password)

\* C15: a Register for a username that has an identity (index and record) is
\* never answered 201, is answered 409 when Redis answers all its calls, and
\* leaves the records and the username index as they were.
C15_RegisterExistingConflict ==
    [][(resp'.op = "register" /\ Existing(resp'.req.username)) =>
          /\ resp'.status # StatusCreated
          /\ ~resp'.storeErr => resp'.status = StatusConflict
          /\ users' = users /\ usernameIdx' = usernameIdx]_vars

\* C15 without Redis failures: a Register for a username that has an identity,
\* all of whose Redis calls are answered, is answered 409 and changes nothing.
C15_RegisterExistingConflictAnswered ==
    [][(resp'.op = "register" /\ Existing(resp'.req.username) /\ ~resp'.storeErr) =>
          /\ resp'.status = StatusConflict
          /\ users' = users /\ usernameIdx' = usernameIdx]_vars

\* What Refresh answers for a token in the present state, Redis answering
RefreshNow(t) == Run(RefreshRequest(t), Store, <<TRUE>>, clock).resp

\* C16: a refresh token value that a Logout has revoked or whose TTL has run
\* out is dead for good: in no later state does Refresh accept it.
C16_DeadStaysDead ==
    \A t \in IssuedRefreshTokens :
        (t \in revoked \/ ~Unexpired(t)) => ~GrantsAccessToken(RefreshNow(t))

\* C16 for expiry alone: a refresh token whose TTL has run out is never
\* accepted by Refresh again.
C16_ExpiredStaysDead ==
    \A t \in IssuedRefreshTokens : ~Unexpired(t) => ~GrantsAccessToken(RefreshNow(t))

\* C17: the ledger entry Login and WeChatLogin write for a refresh token expires
\* RefreshTokenTTL after the write, the TTL generateToken has put into the
\* token's exp, so that entry and token end together: the entry never before
\* the token and less than a second after it (exp is a whole second).
C17_LedgerTTLIsTokenTTL ==
    /\ LedgerTTL = RefreshTokenTTL
    /\ (resp.op \in {"login", "wechat"} /\ resp.status = StatusOK) =>
          /\ ledger[resp.body.refresh_token].exp = clock + RefreshTokenTTL
          /\ resp.body.refresh_token.claims.exp = NumericDate(clock + RefreshTokenTTL)
    /\ \A t \in DOMAIN ledger :
          /\ ledger[t].exp >= t.claims.exp
          /\ ledger[t].exp - t.claims.iat < RefreshTokenTTL + TicksPerSecond

\* C17 witness: a Login off the full second has written the ledger entry of the
\* refresh token it returns.
C17_Witness ==
    /\ resp.op = "login" /\ resp.status = StatusOK
    /\ clock % TicksPerSecond # 0
    /\ resp.body.refresh_token \in DOMAIN ledger

\* The kinds of token and the TTL the issuer gives each
TTLOf(kind) == IF kind = AccessToken THEN AccessTokenTTL ELSE RefreshTokenTTL

Accepted(tok, now) == ~ValidateToken(tok, now).err

\* C18 as stated: a token issued at time t with TTL d is accepted at the times
\* in [t, t+d) and rejected from t+d on.
C18_WindowExact ==
    \A id \in IdentityIDs, kind \in {AccessToken, RefreshToken}, d \in Delays :
        LET tok == generateToken(id, kind, TTLOf(kind), clock)
        IN  Accepted(tok, clock + d) <=> d < TTLOf(kind)

\* C18 to the second: ValidateToken rejects every token at and after its exp
\* and before its nbf; a token issued at time t with TTL d has nbf = t and
\* exp = t+d cut to the whole second and is accepted exactly at the times from
\* t up to that second, and a token issued later than now, in a later second,
\* is rejected now.
C18_WindowToTheSecond ==
    /\ \A id \in IdentityIDs, kind \in {AccessToken, RefreshToken}, d \in Delays :
          LET tok == generateToken(id, kind, TTLOf(kind), clock)
              early == generateToken(id, kind, TTLOf(kind), clock + d)
          IN  /\ Accepted(tok, clock + d) <=> clock + d < NumericDate(clock + TTLOf(kind))
              /\ d >= TTLOf(kind) => ~Accepted(tok, clock + d)
              /\ d < TTLOf(kind) - TicksPerSecond => Accepted(tok, clock + d)
              /\ NumericDate(clock + d) > clock => ~Accepted(early, clock)
    /\ \A t \in Presentable :
          (clock >= t.claims.exp \/ clock < t.claims.nbf) => ~Accepted(t, clock)

\* C18 witness: off the full second, a protected route has refused an issued
\* access token whose exp has passed.
C18_Witness ==
    /\ IsProtectedResp /\ resp.status = StatusUnauthorized
    /\ BearerOf(resp) \in IssuedAccessTokens
    /\ clock >= BearerOf(resp).claims.exp
    /\ clock % TicksPerSecond # 0

\* The single-character changes of a token's signature segment: one that
\* changes MAC bytes gives the segment of some other MAC, one of the last
\* character may change its unused bits only
SignatureTampered(t) ==
    ({[t EXCEPT !.sig.bits = b] : b \in 1..3}
        \cup {[t EXCEPT !.sig.mac = HS256(k, c)] :
                 k \in {SecretKey, "attacker"},
                 c \in {t.claims, Retyped(t).claims, NoClaims}}) \ {t}

\* C19: for every valid issued access token, every single-character change of
\* its signature segment makes ValidateToken return an error.
C19_TamperedSignatureFails ==
    \A t \in IssuedAccessTokens :
        Accepted(t, clock) => \A x \in SignatureTampered(t) : ~Accepted(x, clock)

\* C19, the general part: ValidateToken accepts only tokens under HS256 whose
\* decoded signature is the MAC of their exact claims under the process's
\* secret; a change of the MAC bytes, of the claims or of the algorithm fails.
C19_OnlySignedAccepted ==
    /\ \A t \in Presentable :
          Accepted(t, clock) =>
              (t.alg = "HS256" /\ DecodeSegment(t.sig) = HS256(SecretKey, t.claims))
    /\ \A t \in IssuedAccessTokens :
          \A x \in SignatureTampered(t) :
              DecodeSegment(x.sig) # DecodeSegment(t.sig) => ~Accepted(x, clock)

\* A protected handler has run: the response is not AuthRequired's 401
HandlerRan == resp.op \in {"me", "protected"} /\ resp.status # StatusUnauthorized

\* C20: a protected handler runs only for a request with a bearer token that
\* passes ValidateAccessToken, and the principal it works with (the user_id of
\* /api/protected's body, the id of the record /me returns) is the subject
\* claim of that token.
C20_PrincipalIsSubject ==
    HandlerRan =>
        /\ IsProtectedResp
        /\ ~ValidateAccessToken(BearerOf(resp), clock).err
        /\ BearerOf(resp).claims.user_id # ""
        /\ resp.op = "protected" => resp.body.user_id = BearerOf(resp).claims.user_id
        /\ (resp.op = "me" /\ resp.status = StatusOK) =>
              resp.body.id = BearerOf(resp).claims.user_id

\* C20 witness: /me has answered 200 with the record of the token's subject
\* while another identity exists.
C20_Witness ==
    /\ resp.op = "me" /\ resp.status = StatusOK
    /\ resp.body.id = BearerOf(resp).claims.user_id
    /\ Cardinality(DOMAIN users) > 1

\* C21: a Refresh request, answered 200 or not, whatever token it presents and
\* whether or not Redis answers, leaves the ledger (entries, values and
\* expiries) and the rest of the keyspace as they are; its 200 body holds an
\* access token and expires_in and no refresh token.
C21_RefreshDoesNotRotate ==
    /\ \A t \in Presentable, up \in BOOLEAN :
          LET r == Run(RefreshRequest(t), Store, <<up>>, clock)
          IN  /\ r.st = Store
              /\ r.resp.status = StatusOK =>
                    DOMAIN r.resp.body = {"access_token", "expires_in"}
    /\ (IsRefreshResp /\ resp.status = StatusOK) =>
          /\ DOMAIN resp.body = {"access_token", "expires_in"}
          /\ resp.body.access_token.claims.type = AccessToken
          /\ ledger[resp.req.refresh_token].exp
                < resp.req.refresh_token.claims.iat + LedgerTTL + TicksPerSecond

\* C21 witness: a Refresh has been answered 200 some time after the token's
\* issue, and the entry still has the expiry of its issue.
C21_Witness ==
    /\ IsRefreshResp /\ resp.status = StatusOK
    /\ clock >= resp.req.refresh_token.claims.iat + TicksPerSecond
    /\ ledger[resp.req.refresh_token].exp < clock + LedgerTTL

\* C22: Logout answers 200 for every presented string that Redis answers the
\* DEL of, valid refresh token or not, and removes the ledger entry keyed by
\* just that string: every other entry keeps its value and expiry, and the
\* records and indexes are unchanged; a Logout whose DEL fails changes nothing.
C22_LogoutDeletesOnlyItsKey ==
    \A t \in Presentable, up \in BOOLEAN :
        LET r == Run(LogoutRequest(t), Store, <<up>>, clock)
        IN  /\ up => r.resp.status = StatusOK
            /\ up => DOMAIN r.st.ledger = DOMAIN ledger \ {t}
            /\ \A x \in DOMAIN r.st.ledger : r.st.ledger[x] = ledger[x]
            /\ r.st.users = users
            /\ r.st.usernameIdx = usernameIdx
            /\ r.st.openidIdx = openidIdx
            /\ ~up => r.st = Store

\* C22 witness: Logout has answered 200 for a string that is no valid refresh
\* token, and the entry of a session is still in the ledger.
C22_Witness ==
    /\ resp.op = "logout" /\ resp.status = StatusOK
    /\ ValidateRefreshToken(resp.req.refresh_token, clock).err
    /\ \E x \in DOMAIN ledger : x # resp.req.refresh_token /\ LedgerLive(ledger, x, clock)

\* No call of the UserStore is under way
Quiescent == \A p \in Procs : proc[p].pc = "idle"

\* C23: once the calls made have returned, failed ones included, every
\* username index entry and every OpenID index entry refers to an existing
\* identity record whose Username, respectively OpenID, is the key.
C23_IndexesPointToRecords ==
    Quiescent =>
        /\ \A u \in DOMAIN usernameIdx :
              /\ usernameIdx[u] \in DOMAIN users
              /\ UnmarshalUser(users[usernameIdx[u]]).Username = u
        /\ \A o \in DOMAIN openidIdx :
              /\ openidIdx[o] \in DOMAIN users
              /\ UnmarshalUser(users[openidIdx[o]]).OpenID = o

\* C24: every ledger entry is keyed by a refresh token as GenerateRefreshToken
\* makes it for the entry's value, one handed out in a 200 response, so the
\* value is the key's subject claim; and Refresh never answers a token that
\* validates as a refresh token with the subject-mismatch rejection.
C24_LedgerKeyedByIssuedTokens ==
    /\ \A t \in DOMAIN ledger :
          /\ t \in IssuedRefreshTokens
          /\ t = GenerateRefreshToken(ledger[t].uid, t.claims.iat)
          /\ ledger[t].uid = t.claims.user_id
    /\ (IsRefreshResp /\ ~ValidateRefreshToken(resp.req.refresh_token, clock).err) =>
          resp.body # ErrorBody("invalid refresh token")

\* C24 witness: Refresh has answered 200 from a ledger entry while a Login or
\* WeChatLogin of another goroutine is about to write the ledger.
C24_Witness ==
    /\ IsRefreshResp /\ resp.status = StatusOK
    /\ resp.req.refresh_token \in DOMAIN ledger
    /\ \E p \in Procs : proc[p].pc \in {"login_set_ledger", "wechat_set_ledger"}

\* The response of a Login or WeChatLogin that succeeded
IsLoginOK(r) == r.op \in {"login", "wechat"} /\ r.status = StatusOK

\* C25: a successful login returns a refresh token that no earlier response
\* has handed out, and leaves the ledger entries of the earlier sessions, their
\* remaining time to live included, as they were.
C25_SessionsIndependent ==
    [][(resp.op = "none" /\ IsLoginOK(resp')) =>
          /\ resp'.body.refresh_token \notin issued
          /\ \A t \in DOMAIN ledger : t \in DOMAIN ledger' /\ ledger'[t] = ledger[t]]_vars

\* C26: of the concurrent Register requests for one username at most one is
\* answered 201: when a Register is answered 201 no earlier Register had
\* completed the username's index entry (which only a 201 does), and the
\* password hash stored for the username is that of the answered request.
C26_OneRegisterWins ==
    [][(resp.op = "none" /\ resp'.op = "register" /\ resp'.status = StatusCreated) =>
          /\ resp'.req.username \notin DOMAIN usernameIdx
          /\ resp'.req.username \in DOMAIN users'
          /\ CompareHashAndPassword(UnmarshalUser(users'[resp'.req.username]).Password,
                                    resp'.req.password)]_vars

\* C27: no step replaces the record of a password-registered identity by the
\* record of a third-party identity: a record that carries a password hash
\* keeps it, and has no OpenID, after every step of every WeChatLogin.
C27_WeChatNeverOverwrites ==
    [][\A id \in DOMAIN users :
          UnmarshalUser(users[id]).Password # "" =>
              /\ id \in DOMAIN users'
              /\ UnmarshalUser(users'[id]).OpenID = ""
              /\ UnmarshalUser(users'[id]).Password # ""]_vars

\* The identity of a username was created by third-party login: its record
\* carries an OpenID and no password hash
ThirdParty(username) ==
    /\ Existing(username)
    /\ UnmarshalUser(users[usernameIdx[username]]).OpenID # ""
    /\ UnmarshalUser(users[usernameIdx[username]]).Password = ""

\* C28 while the record has no password hash, requests served one at a time:
\* a Login with the username of an identity created by third-party login is
\* answered 401 and hands out no token, whatever the password and whether
\* Redis answers or not; and so would every Login made now.
C28_NoPasswordLoginWhileNoHash ==
    /\ (resp.op = "login" /\ ThirdParty(resp.req.username)) =>
          resp.status = StatusUnauthorized /\ TokensOf(resp) = {}
    /\ \A u \in Usernames, pw \in Passwords, ups \in Schedules(3) :
          ThirdParty(u) =>
              LET r == Run(LoginRequest(u, pw), Store, ups, clock).resp
              IN  r.status = StatusUnauthorized /\ TokensOf(r) = {}

\* C28: a Login with the username of an identity that a WeChatLogin has
\* issued tokens for is answered 401 and hands out no token.
C28_ThirdPartyNeverPasswordLogin ==
    (resp.op = "login" /\ \E w \in wechatLogins : w.user_id = resp.req.username) =>
        resp.status = StatusUnauthorized /\ TokensOf(resp) = {}

====
